---- MODULE Spec2Model ----
(***************************************************************************)
(* NSmedia: the id-keyed registry of media sessions and the status         *)
(* dispatcher NSmedia.onStatus, in the two adapters of the plugin:         *)
(*   "direct"  src/www/browser/NSmedia.js  (wraps an Audio element)        *)
(*   "bridge"  src/unnamed/part_000        (cordova exec bridge)           *)
(* One behaviour runs one adapter; Init chooses which module is loaded.    *)
(* SpecChannel runs the bridge-backed module from its load on, with the    *)
(* status channel the module sets up on android, amazon-fireos and         *)
(* windowsphone.                                                           *)
(***************************************************************************)
EXTENDS Integers, Sequences, FiniteSets, TLC

VARIABLES
    adapter,       \* which of the two modules is loaded
    mediaObjects,  \* the registry: id -> object reference (index into heap)
    heap,          \* the NSmedia objects constructed so far, by reference
    nodes,         \* direct: the Audio elements created so far, by reference
    pending,       \* bridge: exec commands issued and not yet answered
    calls,         \* callbacks invoked by the last operation, in order
    statuses,      \* NSmedia.onStatus invocations of the last operation, in order
    logs,          \* console.error diagnostics of the last operation
    fault,         \* the last operation threw to its caller
    last,          \* the last operation and its arguments
    channel        \* bridge: the platform and the state of the status channel

vars == <<adapter, mediaObjects, heap, nodes, pending, calls, statuses, logs, fault, last, channel>>

(***************************************************************************)
(* Bounds of the model.                                                    *)
(***************************************************************************)
\* Spec: MaxSessions sessions, at most WideNodes elements, WidePending commands
MaxSessions == 2
WideNodes == 1
WidePending == 1
\* SpecDeep: DeepSessions sessions, at most MaxNodes elements, MaxPending commands
DeepSessions == 1
MaxNodes == 2
MaxPending == 2

(***************************************************************************)
(* JavaScript values.  A number is n + f/10 (one fractional digit), a      *)
(* string is its sequence of characters.                                   *)
(***************************************************************************)
Num(k) == [t |-> "num", n |-> k, f |-> 0, s |-> <<>>]
Frac(k, d) == [t |-> "num", n |-> k, f |-> d, s |-> <<>>]
Str(cs) == [t |-> "str", n |-> 0, f |-> 0, s |-> cs]
NaN == [t |-> "nan", n |-> 0, f |-> 0, s |-> <<>>]
Undef == [t |-> "undefined", n |-> 0, f |-> 0, s |-> <<>>]
NoArgs == [t |-> "noargs", n |-> 0, f |-> 0, s |-> <<>>]
\* an object { code: c }; error codes are kept by name
ErrObj(c) == [t |-> "object", n |-> 0, f |-> 0, s |-> <<c>>]
\* e.code
CodeOf(e) == e.s[1]
\* a thrown exception object of the named class
Exc(name) == [t |-> "exception", n |-> 0, f |-> 0, s |-> <<name>>]
TypeError == Exc("TypeError")

\* NSmedia messages
MEDIA_STATE == Num(1)
MEDIA_DURATION == Num(2)
MEDIA_POSITION == Num(3)
MEDIA_ERROR == Num(9)

\* NSmedia states
MEDIA_NONE == Num(0)
MEDIA_STARTING == Num(1)
MEDIA_RUNNING == Num(2)
MEDIA_PAUSED == Num(3)
MEDIA_STOPPED == Num(4)

\* NSmediaError codes
MEDIA_ERR_ABORTED == "MEDIA_ERR_ABORTED"
MEDIA_ERR_NETWORK == "MEDIA_ERR_NETWORK"
MEDIA_ERR_SRC_NOT_SUPPORTED == "MEDIA_ERR_SRC_NOT_SUPPORTED"

NotSupported == Str(<<"N", "o", "t", " ", "s", "u", "p", "p", "o", "r", "t", "e", "d">>)

Digits == {"0", "1", "2", "3", "4", "5", "6", "7", "8", "9"}

DigitVal(c) ==
    CASE c = "0" -> 0 [] c = "1" -> 1 [] c = "2" -> 2 [] c = "3" -> 3
      [] c = "4" -> 4 [] c = "5" -> 5 [] c = "6" -> 6 [] c = "7" -> 7
      [] c = "8" -> 8 [] c = "9" -> 9

RECURSIVE DecimalVal(_)
\* value of a sequence of decimal digits
DecimalVal(cs) ==
    IF cs = <<>> THEN 0
    ELSE 10 * DecimalVal(SubSeq(cs, 1, Len(cs) - 1)) + DigitVal(cs[Len(cs)])

AllDigits(cs) == \A i \in 1..Len(cs) : cs[i] \in Digits

\* position of the first "." of cs, or 0
DotAt(cs) ==
    IF \E i \in 1..Len(cs) : cs[i] = "."
    THEN CHOOSE i \in 1..Len(cs) : cs[i] = "." /\ \A j \in 1..(i - 1) : cs[j] # "."
    ELSE 0

\* StringToNumber on unsigned decimal literals with at most one fractional
\* digit: "" is 0, "12" is 12, "12.5" is 12.5, anything unparsable is NaN
StringToNumber(cs) ==
    LET d == DotAt(cs)
        ip == IF d = 0 THEN cs ELSE SubSeq(cs, 1, d - 1)
        fp == IF d = 0 THEN <<>> ELSE SubSeq(cs, d + 1, Len(cs))
    IN  IF cs = <<>> THEN Num(0)
        ELSE IF AllDigits(ip) /\ AllDigits(fp) /\ Len(ip) + Len(fp) > 0 /\ Len(fp) <= 1
             THEN Frac(DecimalVal(ip), DecimalVal(fp))
             ELSE NaN

\* variant: the value is stored without conversion
Number_Identity(v) == v

\* Number(value)
Number(v) ==
    CASE v.t = "num" -> v
      [] v.t = "str" -> StringToNumber(v.s)
      [] OTHER -> NaN

\* value === c, for a number c
StrictEquals(v, c) == v = c

\* value == c, for a number c: a string operand is converted with ToNumber
LooseEquals(v, c) ==
    CASE v.t = "num" -> v = c
      [] v.t = "str" -> StringToNumber(v.s) = c
      [] OTHER -> FALSE

\* JavaScript truthiness
Truthy(v) ==
    CASE v.t = "num" -> ~(v.n = 0 /\ v.f = 0)
      [] v.t = "str" -> v.s # <<>>
      [] v.t \in {"nan", "undefined"} -> FALSE
      [] OTHER -> TRUE

\* milliseconds / 1000, at the resolution of one fractional digit
Div1000(v) ==
    IF v.t = "num" /\ v.f = 0 /\ v.n >= 0
    THEN Frac(v.n \div 1000, (v.n % 1000) \div 100)
    ELSE NaN

Finite(v) == v.t = "num"

(***************************************************************************)
(* Ids, objects, the machine context threaded through a handler.           *)
(***************************************************************************)
\* utils.createUUID(): the k-th id generated by the process
createUUID(k) == <<"uuid", k>>

\* an id no session was given
UnknownId == <<"uuid", 0>>

NoNode == 0

\* no exception in flight
Nothing == [t |-> "nothing", n |-> 0, f |-> 0, s |-> <<>>]

\* the machine at the start of an operation
Ctx == [mediaObjects |-> mediaObjects, heap |-> heap, nodes |-> nodes, pending |-> pending,
        calls |-> <<>>, statuses |-> <<>>, logs |-> <<>>, thrown |-> Nothing]

\* a callback of session o (or a callback passed to one of its operations) is called
Invoke(m, o, cb, arg) ==
    [m EXCEPT !.calls = Append(@, [obj |-> o, cb |-> cb, arg |-> arg])]

\* console.error && console.error(what)
Log(m, what) == [m EXCEPT !.logs = Append(@, what)]

\* variant: the session is registered before this.id is set, under the key undefined
Register_UndefinedKey(m, id, this) ==
    [m EXCEPT !.mediaObjects =
        [i \in DOMAIN @ \cup {<<"undefined">>} |-> IF i = <<"undefined">> THEN this ELSE @[i]]]

\* mediaObjects[id] = this
Register(m, id, this) ==
    [m EXCEPT !.mediaObjects =
        [i \in DOMAIN @ \cup {id} |-> IF i = id THEN this ELSE @[i]]]

(***************************************************************************)
(* NSmedia.onStatus.  The two modules carry the same switch; they differ   *)
(* in the comparison of the MEDIA_STATE case.                              *)
(***************************************************************************)
\* variant: the success callback is called before the status callback
stateDirect_SuccessFirst(m, media, value) ==
    LET m1 == IF StrictEquals(value, MEDIA_STOPPED) /\ m.heap[media].successCallback
              THEN Invoke(m, media, "successCallback", NoArgs)
              ELSE m
    IN  IF m1.heap[media].statusCallback
        THEN Invoke(m1, media, "statusCallback", value)
        ELSE m1

\* case MEDIA_STATE, src/www/browser/NSmedia.js: value === MEDIA_STOPPED
stateDirect(m, media, value) ==
    LET m1 == IF m.heap[media].statusCallback
              THEN Invoke(m, media, "statusCallback", value)
              ELSE m
    IN  IF StrictEquals(value, MEDIA_STOPPED) /\ m1.heap[media].successCallback
        THEN Invoke(m1, media, "successCallback", NoArgs)
        ELSE m1

\* case MEDIA_STATE, src/unnamed/part_000: value == MEDIA_STOPPED
stateBridge(m, media, value) ==
    LET m1 == IF m.heap[media].statusCallback
              THEN Invoke(m, media, "statusCallback", value)
              ELSE m
    IN  IF LooseEquals(value, MEDIA_STOPPED) /\ m1.heap[media].successCallback
        THEN Invoke(m1, media, "successCallback", NoArgs)
        ELSE m1

\* case MEDIA_DURATION
durationCase(m, media, value) == [m EXCEPT !.heap[media]._duration = value]

\* case MEDIA_ERROR
errorCase(m, media, value) ==
    IF m.heap[media].errorCallback
    THEN Invoke(m, media, "errorCallback", value)
    ELSE m

\* variant: the position case assigns the duration field
positionCase_WritesDuration(m, media, value) == [m EXCEPT !.heap[media]._duration = Number(value)]

\* case MEDIA_POSITION
positionCase(m, media, value) == [m EXCEPT !.heap[media]._position = Number(value)]

\* variant: the default case falls into the error case
unhandled_CallsError(m, media, msgType) ==
    IF m.heap[media].errorCallback
    THEN Invoke(m, media, "errorCallback", msgType)
    ELSE m

\* default
unhandled(m, media, msgType) == Log(m, "Unhandled NSmedia.onStatus")

\* variant: no if (media) guard, so the property read of undefined throws
unknownMedia_Throws(m, id) == [m EXCEPT !.thrown = TypeError]

\* the else branch of if (media)
unknownMedia(m, id) == Log(m, "Received NSmedia.onStatus callback for unknown media")

Status(id, msgType, value) == [id |-> id, msgType |-> msgType, value |-> value]

\* NSmedia.onStatus of src/www/browser/NSmedia.js
onStatusDirect(m, id, msgType, value) ==
    LET m0 == [m EXCEPT !.statuses = Append(@, Status(id, msgType, value))]
    IN  IF id \in DOMAIN m0.mediaObjects
        THEN LET media == m0.mediaObjects[id] IN
             CASE StrictEquals(msgType, MEDIA_STATE) -> stateDirect(m0, media, value)
               [] StrictEquals(msgType, MEDIA_DURATION) -> durationCase(m0, media, value)
               [] StrictEquals(msgType, MEDIA_ERROR) -> errorCase(m0, media, value)
               [] StrictEquals(msgType, MEDIA_POSITION) -> positionCase(m0, media, value)
               [] OTHER -> unhandled(m0, media, msgType)
        ELSE unknownMedia(m0, id)

\* NSmedia.onStatus of src/unnamed/part_000
onStatusBridge(m, id, msgType, value) ==
    LET m0 == [m EXCEPT !.statuses = Append(@, Status(id, msgType, value))]
    IN  IF id \in DOMAIN m0.mediaObjects
        THEN LET media == m0.mediaObjects[id] IN
             CASE StrictEquals(msgType, MEDIA_STATE) -> stateBridge(m0, media, value)
               [] StrictEquals(msgType, MEDIA_DURATION) -> durationCase(m0, media, value)
               [] StrictEquals(msgType, MEDIA_ERROR) -> errorCase(m0, media, value)
               [] StrictEquals(msgType, MEDIA_POSITION) -> positionCase(m0, media, value)
               [] OTHER -> unhandled(m0, media, msgType)
        ELSE unknownMedia(m0, id)

\* the onStatus of the loaded module
onStatus(m, id, msgType, value) ==
    IF adapter = "direct"
    THEN onStatusDirect(m, id, msgType, value)
    ELSE onStatusBridge(m, id, msgType, value)

(***************************************************************************)
(* Direct-backed adapter: the Audio element and the operations on it.      *)
(***************************************************************************)
Observers == {"onloadstart", "onplaying", "ondurationchange", "onerror", "onended"}

\* createNode: new Audio() with the five listeners attached; node.src is
\* set only when media.src is truthy
createNode(m, media) ==
    [m EXCEPT !.nodes = Append(@,
        [owner |-> media,
         src |-> IF m.heap[media].src # "" THEN m.heap[media].src ELSE "",
         observers |-> Observers,
         currentTime |-> Num(0),
         paused |-> TRUE,
         volume |-> Num(1)])]

\* try { this.node = createNode(this) } catch (err) { onStatus(MEDIA_ERROR, aborted) }
\* where new Audio() throws unless the element is creatable
tryCreateNode(m, this, creatable) ==
    IF creatable
    THEN LET m1 == createNode(m, this)
         IN  [m1 EXCEPT !.heap[this].node = Len(m1.nodes)]
    ELSE onStatus(m, m.heap[this].id, MEDIA_ERROR, ErrObj(MEDIA_ERR_ABORTED))

\* variant: the element is created but not stored in this.node
play_NodeNotStored(m, this, creatable) ==
    LET m1 == IF m.heap[this].node = NoNode /\ creatable THEN createNode(m, this) ELSE m
        node == m1.heap[this].node
    IN  IF node = NoNode
        THEN [m1 EXCEPT !.thrown = TypeError]
        ELSE [m1 EXCEPT !.nodes[node].paused = FALSE]

\* NSmedia.prototype.play: this.node.play() is outside the try
play(m, this, creatable) ==
    LET m1 == IF m.heap[this].node = NoNode
              THEN tryCreateNode(m, this, creatable)
              ELSE m
        node == m1.heap[this].node
    IN  IF node = NoNode
        THEN [m1 EXCEPT !.thrown = TypeError]
        ELSE [m1 EXCEPT !.nodes[node].paused = FALSE]

\* variant: no try around this.node.pause()
pause_NoCatch(m, this) ==
    LET node == m.heap[this].node
    IN  IF node = NoNode
        THEN [m EXCEPT !.thrown = TypeError]
        ELSE onStatus([m EXCEPT !.nodes[node].paused = TRUE],
                      m.heap[this].id, MEDIA_STATE, MEDIA_PAUSED)

\* NSmedia.prototype.pause
pause(m, this) ==
    LET node == m.heap[this].node
    IN  IF node = NoNode
        THEN onStatus(m, m.heap[this].id, MEDIA_ERROR, TypeError)
        ELSE onStatus([m EXCEPT !.nodes[node].paused = TRUE],
                      m.heap[this].id, MEDIA_STATE, MEDIA_PAUSED)

\* NSmedia.prototype.seekTo: the currentTime setter rejects a non-finite
\* value with a TypeError
seekTo(m, this, milliseconds) ==
    LET node == m.heap[this].node
        t == Div1000(milliseconds)
    IN  IF node = NoNode \/ ~Finite(t)
        THEN onStatus(m, m.heap[this].id, MEDIA_ERROR, TypeError)
        ELSE [m EXCEPT !.nodes[node].currentTime = t]

\* variant: STOPPED is dispatched before the element is paused and rewound
stop_StoppedFirst(m, this) ==
    LET m1 == onStatus(m, m.heap[this].id, MEDIA_STATE, MEDIA_STOPPED)
        m2 == pause(m1, this)
    IN  seekTo(m2, this, Num(0))

\* catch (err) { NSmedia.onStatus(this.id, NSmedia.MEDIA_ERROR, err) }
catchToStatus(m, this) ==
    onStatus([m EXCEPT !.thrown = Nothing], m.heap[this].id, MEDIA_ERROR, m.thrown)

\* NSmedia.prototype.stop: a fault of pause or seekTo would skip the rest of
\* the try block; pause and seekTo catch their own faults
stop(m, this) ==
    LET m1 == pause(m, this)
        m2 == seekTo(m1, this, Num(0))
    IN  IF m1.thrown # Nothing THEN catchToStatus(m1, this)
        ELSE IF m2.thrown # Nothing THEN catchToStatus(m2, this)
        ELSE onStatus(m2, m.heap[this].id, MEDIA_STATE, MEDIA_STOPPED)

\* variant: the fault is reported as a MEDIA_ERROR status, as pause and seekTo do
getCurrentPosition_ErrorStatus(m, this) ==
    LET node == m.heap[this].node
    IN  IF node = NoNode
        THEN onStatus(m, m.heap[this].id, MEDIA_ERROR, TypeError)
        ELSE LET p == m.nodes[node].currentTime
                 m1 == onStatus(m, m.heap[this].id, MEDIA_POSITION, p)
             IN  Invoke(m1, this, "success", p)

\* NSmedia.prototype.getCurrentPosition(success, fail)
getCurrentPosition(m, this) ==
    LET node == m.heap[this].node
    IN  IF node = NoNode
        THEN Invoke(m, this, "fail", TypeError)
        ELSE LET p == m.nodes[node].currentTime
                 m1 == onStatus(m, m.heap[this].id, MEDIA_POSITION, p)
             IN  Invoke(m1, this, "success", p)

\* NSmedia.prototype.startRecord
startRecord(m, this) == onStatus(m, m.heap[this].id, MEDIA_ERROR, NotSupported)

\* NSmedia.prototype.stopRecord
stopRecord(m, this) == onStatus(m, m.heap[this].id, MEDIA_ERROR, NotSupported)

\* variant: release also deletes the registry entry
release_DeletesEntry(m, this) ==
    [m EXCEPT !.heap[this].node = NoNode,
              !.mediaObjects = [i \in DOMAIN @ \ {m.heap[this].id} |-> @[i]]]

\* NSmedia.prototype.release: delete this.node
release(m, this) == [m EXCEPT !.heap[this].node = NoNode]

\* the volume setter accepts only a number in [0, 1]
ValidVolume(v) == v.t = "num" /\ (v.n = 0 \/ (v.n = 1 /\ v.f = 0))

\* NSmedia.prototype.setVolume: no try around this.node.volume = volume
setVolume(m, this, volume) ==
    LET node == m.heap[this].node
    IN  IF node = NoNode
        THEN [m EXCEPT !.thrown = TypeError]
        ELSE IF ~ValidVolume(volume)
             THEN [m EXCEPT !.thrown = Exc("IndexSizeError")]
             ELSE [m EXCEPT !.nodes[node].volume = volume]

(***************************************************************************)
(* Bridge-backed adapter: every operation is one exec command.             *)
(***************************************************************************)
\* this.errorCallback passed as a handler: null when the session has none
errorCallbackOf(m, this) == IF m.heap[this].errorCallback THEN "errorCallback" ELSE "null"

\* exec(win, fail, "NSmedia", action, [this.id, ...])
exec(m, win, fail, action, this) ==
    [m EXCEPT !.pending = Append(@,
        [action |-> action, obj |-> this, id |-> m.heap[this].id, win |-> win, fail |-> fail])]

\* the command each public operation of the bridge-backed adapter issues
execCreate(m, this) == exec(m, "null", errorCallbackOf(m, this), "create", this)
execPlay(m, this) == exec(m, "null", "null", "startPlayingAudio", this)
execStop(m, this) == exec(m, "stop", errorCallbackOf(m, this), "stopPlayingAudio", this)
execSeekTo(m, this) == exec(m, "seekTo", errorCallbackOf(m, this), "seekToAudio", this)
\* variant: pause is sent with the success handler of stop
execPause_StopHandler(m, this) == exec(m, "stop", errorCallbackOf(m, this), "pausePlayingAudio", this)
execPause(m, this) == exec(m, "null", errorCallbackOf(m, this), "pausePlayingAudio", this)
execGetCurrentPosition(m, this) == exec(m, "getCurrentPosition", "fail", "getCurrentPositionAudio", this)
execStartRecord(m, this) == exec(m, "null", errorCallbackOf(m, this), "startRecordingAudio", this)
execStopRecord(m, this) == exec(m, "null", errorCallbackOf(m, this), "stopRecordingAudio", this)
execRelease(m, this) == exec(m, "null", errorCallbackOf(m, this), "release", this)
execSetVolume(m, this) == exec(m, "null", "null", "setVolume", this)

\* the success handler of a command, called with the native result p
win(m, c, p) ==
    CASE c.win = "stop" -> [m EXCEPT !.heap[c.obj]._position = Num(0)]
      [] c.win = "seekTo" -> [m EXCEPT !.heap[c.obj]._position = p]
      [] c.win = "getCurrentPosition" ->
            Invoke([m EXCEPT !.heap[c.obj]._position = p], c.obj, "success", p)
      [] OTHER -> m

\* the failure handler of a command, called with the native error e
fail(m, c, e) ==
    CASE c.fail = "errorCallback" -> Invoke(m, c.obj, "errorCallback", e)
      [] c.fail = "fail" -> Invoke(m, c.obj, "fail", e)
      [] OTHER -> m

RemoveAt(q, i) == SubSeq(q, 1, i - 1) \o SubSeq(q, i + 1, Len(q))

(***************************************************************************)
(* Bridge-backed adapter: the status channel set up when the module loads. *)
(***************************************************************************)
\* cordova.platformId === 'android' || ... 'amazon-fireos' || ... 'windowsphone'
usesChannel(platformId) == platformId \in {"android", "amazon-fireos", "windowsphone"}

\* the module-level code run at load: createSticky and waitForInitialization
\* of onNSmediaPluginReady, and the subscription to onCordovaReady
load(platformId) ==
    [platformId |-> platformId,
     waitingFor |-> IF usesChannel(platformId) THEN {"onNSmediaPluginReady"} ELSE {},
     subscribed |-> usesChannel(platformId),
     cordovaReady |-> FALSE,
     trace |-> <<>>]

\* variant: initialization is reported complete before the command is issued
subscriber_CompleteFirst(ch) ==
    LET ch1 == [ch EXCEPT !.waitingFor = @ \ {"onNSmediaPluginReady"},
                          !.trace = Append(@, "onNSmediaPluginReady")]
    IN  [ch1 EXCEPT !.trace = Append(@, "messageChannel")]

\* the function subscribed to onCordovaReady:
\* exec(onMessageFromNative, undefined, 'NSmedia', 'messageChannel', []) and
\* then channel.initializationComplete('onNSmediaPluginReady')
subscriber(ch) ==
    LET ch1 == [ch EXCEPT !.trace = Append(@, "messageChannel")]
    IN  [ch1 EXCEPT !.waitingFor = @ \ {"onNSmediaPluginReady"},
                    !.trace = Append(@, "onNSmediaPluginReady")]

\* the native side holds onMessageFromNative once messageChannel was issued
Listening(ch) == \E i \in 1..Len(ch.trace) : ch.trace[i] = "messageChannel"

\* onMessageFromNative(msg)
onMessageFromNative(m, msg) ==
    IF msg.action = "status"
    THEN onStatus(m, msg.status.id, msg.status.msgType, msg.status.value)
    ELSE [m EXCEPT !.thrown = Exc("Error")]

(***************************************************************************)
(* Inputs.                                                                 *)
(***************************************************************************)
Srcs == {"a.mp3"}

\* <<successCallback, errorCallback, statusCallback>> given to the constructor
CallbackSets == {<<TRUE, TRUE, TRUE>>, <<FALSE, FALSE, FALSE>>}

Str4 == Str(<<"4">>)
Str12_5 == Str(<<"1", "2", ".", "5">>)

\* <<msgType, value>> of a status delivered from outside
Messages ==
    {<<MEDIA_STATE, MEDIA_STOPPED>>, <<MEDIA_STATE, MEDIA_RUNNING>>, <<MEDIA_STATE, Str4>>,
     <<MEDIA_DURATION, Num(42)>>,
     <<MEDIA_POSITION, Str12_5>>,
     <<MEDIA_ERROR, ErrObj(MEDIA_ERR_NETWORK)>>,
     <<Num(5), MEDIA_STOPPED>>}

SeekValues == {Num(12500), Undef}
Volumes == {Num(1), Num(2)}
\* e.target.duration of a durationchange event
Durations == {Num(42), NaN}
\* e.target.error.code of an error event
ErrorCodes == {MEDIA_ERR_SRC_NOT_SUPPORTED, MEDIA_ERR_NETWORK}
\* results and errors the native side answers a command with
NativeResults == {Frac(12, 5)}
NativeErrors == {ErrObj(MEDIA_ERR_ABORTED)}

Ids == DOMAIN mediaObjects \cup {UnknownId}

Platforms == {"android", "amazon-fireos", "windowsphone", "ios"}

\* the messages the native side pushes over the status channel
NativeMessages ==
    {[action |-> a, status |-> Status(id, msg[1], msg[2])] :
        a \in {"status", "progress"}, id \in Ids,
        msg \in {<<MEDIA_STATE, MEDIA_STOPPED>>, <<MEDIA_POSITION, Str12_5>>}}
Objects == 1..Len(heap)

(***************************************************************************)
(* Actions.                                                                *)
(***************************************************************************)
Op(name, this) ==
    [op |-> name, obj |-> this, id |-> UnknownId, msgType |-> Undef, value |-> Undef,
     node |-> NoNode, ret |-> Undef, action |-> ""]

\* the machine after the operation returned or threw
Returned(m, l) ==
    /\ heap' = m.heap
    /\ nodes' = m.nodes
    /\ pending' = m.pending
    /\ calls' = m.calls
    /\ statuses' = m.statuses
    /\ logs' = m.logs
    /\ fault' = m.thrown
    /\ mediaObjects' = m.mediaObjects
    /\ last' = l
    /\ UNCHANGED adapter

Commit(m, l) == Returned(m, l) /\ UNCHANGED channel

\* no session constructed yet
NoSessions ==
    /\ mediaObjects = <<>>
    /\ heap = <<>>
    /\ nodes = <<>>
    /\ pending = <<>>
    /\ calls = <<>>
    /\ statuses = <<>>
    /\ logs = <<>>
    /\ fault = Nothing
    /\ last = Op("load", 0)

\* either module loaded, on a platform without the status channel
Init ==
    /\ adapter \in {"direct", "bridge"}
    /\ channel = load(IF adapter = "direct" THEN "browser" ELSE "ios")
    /\ NoSessions

\* the bridge-backed module loaded on any platform
InitChannel ==
    /\ adapter = "bridge"
    /\ channel \in {load(platformId) : platformId \in Platforms}
    /\ NoSessions

\* the fields the constructor sets, in both adapters
NewSession(id, src, cbs) ==
    [id |-> id, src |-> src,
     successCallback |-> cbs[1], errorCallback |-> cbs[2], statusCallback |-> cbs[3],
     _duration |-> Num(-1), _position |-> Num(-1), node |-> NoNode]

\* variant: the element is created before STARTING is dispatched
construct_CreateBeforeStarting(m, this, creatable) ==
    IF adapter = "direct"
    THEN onStatus(tryCreateNode(m, this, creatable), m.heap[this].id, MEDIA_STATE, MEDIA_STARTING)
    ELSE execCreate(m, this)

\* the body of the constructor after the fields are set
construct(m, this, creatable) ==
    IF adapter = "direct"
    THEN tryCreateNode(onStatus(m, m.heap[this].id, MEDIA_STATE, MEDIA_STARTING),
                       this, creatable)
    ELSE execCreate(m, this)

\* this.id = utils.createUUID(); mediaObjects[this.id] = this; the fields
allocate(m, src, cbs) ==
    LET this == Len(m.heap) + 1
        id == createUUID(this)
    IN  Register([m EXCEPT !.heap = Append(@, NewSession(id, src, cbs))], id, this)

\* new NSmedia(src, successCallback, errorCallback, statusCallback)
NSmedia(cap, src, cbs, creatable) ==
    /\ Len(heap) < cap.sessions
    /\ IF adapter = "direct"
       THEN creatable => Len(nodes) < cap.nodes
       ELSE creatable /\ Len(pending) < cap.pending
    /\ Commit(construct(allocate(Ctx, src, cbs), Len(heap) + 1, creatable),
              Op("NSmedia", Len(heap) + 1))

\* the operation can run within the caps: the bridge has room for its command
Ready(cap) == adapter = "direct" \/ Len(pending) < cap.pending

Play(cap, this, creatable) ==
    /\ IF adapter = "direct"
       THEN (heap[this].node = NoNode /\ creatable) => Len(nodes) < cap.nodes
       ELSE creatable /\ Len(pending) < cap.pending
    /\ Commit(IF adapter = "direct" THEN play(Ctx, this, creatable)
                                    ELSE execPlay(Ctx, this),
              Op("play", this))

Pause(cap, this) ==
    /\ Ready(cap)
    /\ Commit(IF adapter = "direct" THEN pause(Ctx, this)
                                    ELSE execPause(Ctx, this),
              Op("pause", this))

Stop(cap, this) ==
    /\ Ready(cap)
    /\ Commit(IF adapter = "direct" THEN stop(Ctx, this)
                                    ELSE execStop(Ctx, this),
              Op("stop", this))

SeekTo(cap, this, milliseconds) ==
    /\ Ready(cap)
    /\ Commit(IF adapter = "direct" THEN seekTo(Ctx, this, milliseconds)
                                    ELSE execSeekTo(Ctx, this),
              [Op("seekTo", this) EXCEPT !.value = milliseconds])

GetCurrentPosition(cap, this) ==
    /\ Ready(cap)
    /\ Commit(IF adapter = "direct" THEN getCurrentPosition(Ctx, this)
                                    ELSE execGetCurrentPosition(Ctx, this),
              Op("getCurrentPosition", this))

\* NSmedia.prototype.getDuration
GetDuration(this) ==
    Commit(Ctx, [Op("getDuration", this) EXCEPT !.ret = heap[this]._duration])

StartRecord(cap, this) ==
    /\ Ready(cap)
    /\ Commit(IF adapter = "direct" THEN startRecord(Ctx, this)
                                    ELSE execStartRecord(Ctx, this),
              Op("startRecord", this))

StopRecord(cap, this) ==
    /\ Ready(cap)
    /\ Commit(IF adapter = "direct" THEN stopRecord(Ctx, this)
                                    ELSE execStopRecord(Ctx, this),
              Op("stopRecord", this))

Release(cap, this) ==
    /\ Ready(cap)
    /\ Commit(IF adapter = "direct" THEN release(Ctx, this)
                                    ELSE execRelease(Ctx, this),
              Op("release", this))

SetVolume(cap, this, volume) ==
    /\ Ready(cap)
    /\ Commit(IF adapter = "direct" THEN setVolume(Ctx, this, volume)
                                    ELSE execSetVolume(Ctx, this),
              [Op("setVolume", this) EXCEPT !.value = volume])

\* a call of NSmedia.onStatus(id, msgType, value) from outside the module
OnStatus(id, msgType, value) ==
    Commit(onStatus(Ctx, id, msgType, value),
           [Op("onStatus", 0) EXCEPT !.id = id, !.msgType = msgType, !.value = value])

\* variant: the error listener forwards e.target.error as it is
listener_NoRemap(m, node, ev, e) ==
    LET id == m.heap[m.nodes[node].owner].id
    IN  CASE ev = "onloadstart" -> onStatus(m, id, MEDIA_STATE, MEDIA_STARTING)
          [] ev = "onplaying" -> onStatus(m, id, MEDIA_STATE, MEDIA_RUNNING)
          [] ev = "ondurationchange" ->
                onStatus(m, id, MEDIA_DURATION, IF Truthy(e) THEN e ELSE Num(-1))
          [] ev = "onerror" -> onStatus(m, id, MEDIA_ERROR, e)
          [] ev = "onended" -> onStatus(m, id, MEDIA_STATE, MEDIA_STOPPED)

\* the listener createNode attached for event ev, run with event argument e
listener(m, node, ev, e) ==
    LET id == m.heap[m.nodes[node].owner].id
    IN  CASE ev = "onloadstart" -> onStatus(m, id, MEDIA_STATE, MEDIA_STARTING)
          [] ev = "onplaying" -> onStatus(m, id, MEDIA_STATE, MEDIA_RUNNING)
          [] ev = "ondurationchange" ->
                onStatus(m, id, MEDIA_DURATION, IF Truthy(e) THEN e ELSE Num(-1))
          [] ev = "onerror" ->
                onStatus(m, id, MEDIA_ERROR,
                         IF CodeOf(e) = MEDIA_ERR_SRC_NOT_SUPPORTED
                         THEN ErrObj(MEDIA_ERR_ABORTED)
                         ELSE e)
          [] ev = "onended" -> onStatus(m, id, MEDIA_STATE, MEDIA_STOPPED)

EventArgs(ev) ==
    CASE ev = "ondurationchange" -> Durations
      [] ev = "onerror" -> {ErrObj(c) : c \in ErrorCodes}
      [] OTHER -> {Undef}

\* the Audio element node fires event ev
NodeEvent(node, ev, e) ==
    /\ adapter = "direct"
    /\ ev \in nodes[node].observers
    /\ Commit(listener(Ctx, node, ev, e),
              [Op(ev, nodes[node].owner) EXCEPT !.node = node, !.value = e])

\* the native side answers command i with success and result p
ExecSuccess(i, p) ==
    /\ adapter = "bridge"
    /\ Commit(win([Ctx EXCEPT !.pending = RemoveAt(@, i)], pending[i], p),
              [Op("execSuccess", pending[i].obj) EXCEPT
                  !.value = p, !.msgType = Str(<<pending[i].action>>)])

\* the native side answers command i with failure and error e
ExecError(i, e) ==
    /\ adapter = "bridge"
    /\ Commit(fail([Ctx EXCEPT !.pending = RemoveAt(@, i)], pending[i], e),
              [Op("execError", pending[i].obj) EXCEPT
                  !.value = e, !.msgType = Str(<<pending[i].action>>)])

\* the platform-ready signal: onCordovaReady is sticky and fires once
CordovaReady ==
    /\ ~channel.cordovaReady
    /\ channel' = LET ch == [channel EXCEPT !.cordovaReady = TRUE]
                  IN  IF ch.subscribed THEN subscriber(ch) ELSE ch
    /\ Returned(Ctx, Op("onCordovaReady", 0))

\* the native side pushes msg to the success handler of messageChannel
MessageFromNative(msg) ==
    /\ adapter = "bridge"
    /\ Listening(channel)
    /\ Commit(onMessageFromNative(Ctx, msg),
              [Op("onMessageFromNative", 0) EXCEPT
                  !.action = msg.action, !.id = msg.status.id,
                  !.msgType = msg.status.msgType, !.value = msg.status.value])

Next(cap) ==
    \/ \E src \in Srcs, cbs \in CallbackSets, creatable \in BOOLEAN : NSmedia(cap, src, cbs, creatable)
    \/ \E this \in Objects, creatable \in BOOLEAN : Play(cap, this, creatable)
    \/ \E this \in Objects : Pause(cap, this)
    \/ \E this \in Objects : Stop(cap, this)
    \/ \E this \in Objects, ms \in SeekValues : SeekTo(cap, this, ms)
    \/ \E this \in Objects : GetCurrentPosition(cap, this)
    \/ \E this \in Objects : GetDuration(this)
    \/ \E this \in Objects : StartRecord(cap, this)
    \/ \E this \in Objects : StopRecord(cap, this)
    \/ \E this \in Objects : Release(cap, this)
    \/ \E this \in Objects, volume \in Volumes : SetVolume(cap, this, volume)
    \/ \E id \in Ids, msg \in Messages : OnStatus(id, msg[1], msg[2])
    \/ \E node \in 1..Len(nodes), ev \in Observers : \E e \in EventArgs(ev) : NodeEvent(node, ev, e)
    \/ \E i \in 1..Len(pending), p \in NativeResults : ExecSuccess(i, p)
    \/ \E i \in 1..Len(pending), e \in NativeErrors : ExecError(i, e)

\* several sessions, few elements and commands
Wide == [sessions |-> MaxSessions, nodes |-> WideNodes, pending |-> WidePending]
\* few sessions, elements released and recreated, commands overlapping
Deep == [sessions |-> DeepSessions, nodes |-> MaxNodes, pending |-> MaxPending]

\* one session and one command in flight, next to the status channel
Narrow == [sessions |-> DeepSessions, nodes |-> WideNodes, pending |-> WidePending]

\* the bridge-backed module from its load on
NextChannel(cap) ==
    \/ CordovaReady
    \/ \E msg \in NativeMessages : MessageFromNative(msg)
    \/ \E src \in Srcs, cbs \in CallbackSets : NSmedia(cap, src, cbs, TRUE)
    \/ \E this \in Objects : Play(cap, this, TRUE)
    \/ \E this \in Objects : Pause(cap, this)
    \/ \E this \in Objects : Stop(cap, this)
    \/ \E this \in Objects, ms \in SeekValues : SeekTo(cap, this, ms)
    \/ \E this \in Objects : GetCurrentPosition(cap, this)
    \/ \E this \in Objects : GetDuration(this)
    \/ \E this \in Objects : StartRecord(cap, this)
    \/ \E this \in Objects : StopRecord(cap, this)
    \/ \E this \in Objects : Release(cap, this)
    \/ \E this \in Objects, volume \in Volumes : SetVolume(cap, this, volume)
    \/ \E id \in Ids, msg \in Messages : OnStatus(id, msg[1], msg[2])
    \/ \E i \in 1..Len(pending), p \in NativeResults : ExecSuccess(i, p)
    \/ \E i \in 1..Len(pending), e \in NativeErrors : ExecError(i, e)

Spec == Init /\ [][Next(Wide)]_vars
SpecDeep == Init /\ [][Next(Deep)]_vars
SpecChannel == InitChannel /\ [][NextChannel(Narrow)]_vars

(***************************************************************************)
(* Properties.                                                             *)
(***************************************************************************)
Call(o, cb, arg) == [obj |-> o, cb |-> cb, arg |-> arg]

SessionCallbacks == {"statusCallback", "successCallback", "errorCallback"}

\* the last operation was exactly one onStatus(id, msgType, .) for a registered id
OneStatus(msgType) ==
    /\ Len(statuses) = 1
    /\ statuses[1].msgType = msgType
    /\ statuses[1].id \in DOMAIN mediaObjects

\* the state values of the status taxonomy other than MEDIA_STOPPED
OtherStates == {MEDIA_NONE, MEDIA_STARTING, MEDIA_RUNNING, MEDIA_PAUSED}

\* C1: in both adapters, for a registered session with a status and a success
\* callback, a MEDIA_STATE dispatch of MEDIA_STOPPED calls statusCallback(STOPPED)
\* and then successCallback(), each once and nothing else; a MEDIA_STATE
\* dispatch of any other state of the taxonomy calls statusCallback only.
C1_StoppedStatusThenSuccess ==
    OneStatus(MEDIA_STATE) =>
        LET media == mediaObjects[statuses[1].id]
            value == statuses[1].value
        IN  (heap[media].statusCallback /\ heap[media].successCallback) =>
                /\ value = MEDIA_STOPPED =>
                       calls = <<Call(media, "statusCallback", MEDIA_STOPPED),
                                 Call(media, "successCallback", NoArgs)>>
                /\ value \in OtherStates =>
                       calls = <<Call(media, "statusCallback", value)>>

C1_Witness ==
    /\ last.op = "onStatus"
    /\ adapter = "bridge"
    /\ OneStatus(MEDIA_STATE)
    /\ statuses[1].value = MEDIA_STOPPED
    /\ heap[mediaObjects[statuses[1].id]].statusCallback
    /\ heap[mediaObjects[statuses[1].id]].successCallback
    /\ Len(calls) = 2

\* C2: onStatus for an id that is no key of the registry throws nothing,
\* calls no callback, and changes neither the registry nor any session.
C2_UnknownIdIsNoOp ==
    [][(last'.op = "onStatus" /\ last'.id \notin DOMAIN mediaObjects) =>
          /\ fault' = Nothing
          /\ calls' = <<>>
          /\ mediaObjects' = mediaObjects
          /\ heap' = heap
          /\ nodes' = nodes
          /\ pending' = pending]_vars

C2_Witness ==
    /\ last.op = "onStatus"
    /\ last.id \notin DOMAIN mediaObjects
    /\ last.msgType = MEDIA_DURATION
    /\ Len(heap) = MaxSessions
    /\ logs # <<>>

\* the registry maps the id of every constructed session to that session
RegistryResolves == \A o \in Objects : heap[o].id \in DOMAIN mediaObjects /\ mediaObjects[heap[o].id] = o

DistinctIds == \A o1, o2 \in Objects : o1 # o2 => heap[o1].id # heap[o2].id

\* every status of the step was addressed to id
AddressedTo(id) == statuses' # <<>> /\ \A i \in 1..Len(statuses') : statuses'[i].id = id

\* C3: the registry maps every constructed session's id to that session,
\* distinct sessions have distinct ids, and an operation whose statuses are all
\* addressed to one session's id calls no callback of another session and
\* changes no other session's cached duration or position.
C3_SessionsIndependent ==
    [][/\ RegistryResolves'
       /\ DistinctIds'
       /\ \A o \in Objects : AddressedTo(heap[o].id) =>
             /\ \A i \in 1..Len(calls') : calls'[i].obj = o
             /\ \A other \in Objects \ {o} :
                   /\ heap'[other]._duration = heap[other]._duration
                   /\ heap'[other]._position = heap[other]._position]_vars

C3_Witness ==
    /\ Len(heap) = 2
    /\ RegistryResolves /\ DistinctIds
    /\ last.op = "onStatus"
    /\ last.id = heap[1].id
    /\ last.msgType = MEDIA_DURATION
    /\ heap[1]._duration = Num(42)
    /\ heap[2]._duration = Num(-1)
    /\ heap[2]._position = Frac(12, 5)

\* the cached value of a session before the step; a session constructed by the
\* step starts from the constructor's value
PrevDuration(o) == IF o \in Objects THEN heap[o]._duration ELSE Num(-1)
PrevPosition(o) == IF o \in Objects THEN heap[o]._position ELSE Num(-1)

\* the statuses of type msgType the step dispatched for id
StatusesFor(id, msgType) ==
    SelectSeq(statuses', LAMBDA st : st.id = id /\ st.msgType = msgType)

\* C4: a session's cached duration is -1 at construction; a step changes it
\* only by dispatching MEDIA_DURATION for the session's id, and then it holds
\* the value of the last such dispatch; getDuration() returns the cached value
\* and changes nothing; a MEDIA_DURATION dispatch calls no callback.
C4_DurationFollowsDurationStatus ==
    [][/\ \A o \in 1..Len(heap') :
             LET ds == StatusesFor(heap'[o].id, MEDIA_DURATION)
             IN  heap'[o]._duration = IF ds = <<>> THEN PrevDuration(o) ELSE ds[Len(ds)].value
       /\ last'.op = "getDuration" =>
             /\ last'.ret = heap[last'.obj]._duration
             /\ heap' = heap /\ calls' = <<>> /\ statuses' = <<>>
       /\ (Len(statuses') = 1 /\ statuses'[1].msgType = MEDIA_DURATION) => calls' = <<>>]_vars

C4_Witness ==
    /\ last.op = "getDuration"
    /\ last.ret = Num(42)
    /\ heap[last.obj]._position # Num(-1)

PositionCommands == {"stopPlayingAudio", "seekToAudio", "getCurrentPositionAudio"}

\* C5 as stated: a session's cached position is -1 at construction and a step
\* changes it only by dispatching MEDIA_POSITION for the session's id.
C5_PositionOnlyByPositionStatus ==
    [][\A o \in 1..Len(heap') :
          heap'[o]._position # PrevPosition(o) =>
              StatusesFor(heap'[o].id, MEDIA_POSITION) # <<>>]_vars

\* C5 amended: a session's cached position is -1 at construction and a step
\* changes it only by dispatching MEDIA_POSITION for the session's id or, in the
\* bridge-backed adapter, by the success response to the session's own
\* stopPlayingAudio command (position 0) or seekToAudio or
\* getCurrentPositionAudio command (the position the response carries).
C5_PositionByStatusOrResponse ==
    [][\A o \in 1..Len(heap') :
          heap'[o]._position # PrevPosition(o) =>
              \/ StatusesFor(heap'[o].id, MEDIA_POSITION) # <<>>
              \/ /\ adapter = "bridge"
                 /\ last'.op = "execSuccess"
                 /\ last'.obj = o
                 /\ \E c \in PositionCommands : last'.msgType = Str(<<c>>)
                 /\ heap'[o]._position =
                       IF last'.msgType = Str(<<"stopPlayingAudio">>) THEN Num(0) ELSE last'.value]_vars

C5_Witness ==
    /\ adapter = "bridge"
    /\ last.op = "execSuccess"
    /\ last.msgType = Str(<<"stopPlayingAudio">>)
    /\ heap[last.obj]._position = Num(0)
    /\ statuses = <<>>

\* C6: for a registered session, onStatus(id, MEDIA_POSITION, v) stores the
\* number Number(v) in the cached position (v itself when v is a number, 12.5
\* for the string "12.5"), calls no callback of the session, and leaves the
\* cached duration unchanged.
C6_PositionStoredAsNumber ==
    [][(/\ Len(statuses') = 1
        /\ statuses'[1].msgType = MEDIA_POSITION
        /\ statuses'[1].id \in DOMAIN mediaObjects) =>
          LET media == mediaObjects[statuses'[1].id]
              v == statuses'[1].value
          IN  /\ heap'[media]._position.t \in {"num", "nan"}
              /\ v.t = "num" => heap'[media]._position = v
              /\ v = Str12_5 => heap'[media]._position = Frac(12, 5)
              /\ \A i \in 1..Len(calls') : calls'[i].cb \notin SessionCallbacks
              /\ heap'[media]._duration = heap[media]._duration]_vars

C6_Witness ==
    /\ last.op = "onStatus"
    /\ last.msgType = MEDIA_POSITION
    /\ last.value = Str12_5
    /\ last.id \in DOMAIN mediaObjects
    /\ heap[mediaObjects[last.id]]._position = Frac(12, 5)
    /\ heap[mediaObjects[last.id]].statusCallback

Recognized == {MEDIA_STATE, MEDIA_DURATION, MEDIA_POSITION, MEDIA_ERROR}

\* C7: for a registered session, onStatus with a type other than STATE,
\* DURATION, POSITION and ERROR throws nothing, calls no callback and changes
\* no session; onStatus with type ERROR calls the error callback with the given
\* value (when the session has one), no other callback, and changes neither
\* cached field.
C7_UnhandledAndError ==
    [][(Len(statuses') = 1 /\ statuses'[1].id \in DOMAIN mediaObjects) =>
          LET media == mediaObjects[statuses'[1].id]
              msgType == statuses'[1].msgType
              value == statuses'[1].value
          IN  /\ msgType \notin Recognized =>
                    fault' = Nothing /\ calls' = <<>> /\ heap' = heap
              /\ msgType = MEDIA_ERROR =>
                    /\ calls' = IF heap[media].errorCallback
                                THEN <<Call(media, "errorCallback", value)>>
                                ELSE <<>>
                    /\ heap'[media]._duration = heap[media]._duration
                    /\ heap'[media]._position = heap[media]._position]_vars

C7_Witness ==
    /\ last.op = "onStatus"
    /\ last.msgType \notin Recognized
    /\ last.id \in DOMAIN mediaObjects
    /\ heap[mediaObjects[last.id]].errorCallback
    /\ logs # <<>>

\* C8: no step removes or replaces a registry entry; release() of the
\* direct-backed adapter clears the session's node reference and does nothing
\* else (no status, no callback, the element untouched); a status dispatched
\* to the session's id right after release() reaches the session.
C8_RegistryOnlyGrows ==
    [][/\ \A id \in DOMAIN mediaObjects :
             id \in DOMAIN mediaObjects' /\ mediaObjects'[id] = mediaObjects[id]
       /\ (adapter = "direct" /\ last'.op = "release") =>
             /\ heap' = [heap EXCEPT ![last'.obj].node = NoNode]
             /\ nodes' = nodes
             /\ statuses' = <<>> /\ calls' = <<>> /\ fault' = Nothing
       /\ (last.op = "release" /\ last'.op = "onStatus" /\ last'.id = heap[last.obj].id) =>
             /\ last'.msgType = MEDIA_DURATION => heap'[last.obj]._duration = last'.value
             /\ (last'.msgType = MEDIA_STATE /\ heap[last.obj].statusCallback) =>
                   calls' # <<>> /\ calls'[1] = Call(last.obj, "statusCallback", last'.value)]_vars

C8_Witness ==
    /\ adapter = "direct"
    /\ last.op = "onStatus"
    /\ last.id \in DOMAIN mediaObjects
    /\ heap[mediaObjects[last.id]].node = NoNode
    /\ \E n \in 1..Len(nodes) : nodes[n].owner = mediaObjects[last.id]
    /\ calls # <<>>

\* C9: in the direct-backed adapter, play() right after release(), when the
\* element can be created, stores in the session a new element carrying the
\* session's src and the five listeners, starts it, throws nothing and
\* dispatches no status.
C9_PlayAfterReleaseRecreates ==
    [][(/\ adapter = "direct"
        /\ last.op = "release"
        /\ last'.op = "play"
        /\ last'.obj = last.obj
        /\ Len(nodes') > Len(nodes)) =>
          LET this == last.obj
              node == heap'[this].node
          IN  /\ node = Len(nodes') /\ node = Len(nodes) + 1
              /\ nodes'[node].owner = this
              /\ nodes'[node].src = heap[this].src
              /\ nodes'[node].observers = Observers /\ Cardinality(Observers) = 5
              /\ ~nodes'[node].paused
              /\ fault' = Nothing
              /\ statuses' = <<>>]_vars

C9_Witness ==
    /\ adapter = "direct"
    /\ last.op = "play"
    /\ Len(nodes) = 2
    /\ nodes[1].owner = last.obj /\ nodes[2].owner = last.obj
    /\ heap[last.obj].node = 2
    /\ ~nodes[2].paused
    /\ fault = Nothing

TouchingOps == {"play", "pause", "stop", "seekTo", "getCurrentPosition", "setVolume", "release"}

\* C10: in the direct-backed adapter no operation that touches the element
\* (play, pause, stop, seekTo, getCurrentPosition, setVolume, release) throws
\* to its caller, whether or not the element exists.
C10_NoFaultPropagates ==
    (adapter = "direct" /\ last.op \in TouchingOps) => fault = Nothing

\* C11: the constructor registers the new session under a fresh id before it
\* dispatches or issues anything for that id.  Direct-backed: the first status
\* of the construction is STATE/STARTING for the new id, it reaches the new
\* session's status callback before any other callback, every status of the
\* construction is for the new id, and no unknown-id diagnostic is logged.
\* Bridge-backed: the construction issues exactly the create command carrying
\* the new id, and runs no callback.  The id of every command in flight is a
\* key of the registry.
C11_RegisteredBeforeFirstStatus ==
    [][/\ \A i \in 1..Len(pending') : pending'[i].id \in DOMAIN mediaObjects'
       /\ last'.op = "NSmedia" =>
             LET this == last'.obj
                 id == heap'[this].id
             IN  /\ this = Len(heap) + 1
                 /\ id \notin DOMAIN mediaObjects
                 /\ id \in DOMAIN mediaObjects' /\ mediaObjects'[id] = this
                 /\ logs' = <<>>
                 /\ fault' = Nothing
                 /\ adapter = "direct" =>
                       /\ statuses' # <<>>
                       /\ statuses'[1] = Status(id, MEDIA_STATE, MEDIA_STARTING)
                       /\ \A i \in 1..Len(statuses') : statuses'[i].id = id
                       /\ heap'[this].statusCallback =>
                             calls' # <<>> /\ calls'[1] = Call(this, "statusCallback", MEDIA_STARTING)
                       /\ \A i \in 1..Len(calls') : calls'[i].obj = this
                 /\ adapter = "bridge" =>
                       /\ Len(pending') = Len(pending) + 1
                       /\ pending'[Len(pending')].action = "create"
                       /\ pending'[Len(pending')].id = id
                       /\ statuses' = <<>> /\ calls' = <<>>]_vars

\* a construction whose element could not be created: STARTING then ERROR
C11_Witness ==
    /\ adapter = "direct"
    /\ last.op = "NSmedia"
    /\ Len(heap) = 2
    /\ Len(statuses) = 2
    /\ statuses[2].msgType = MEDIA_ERROR
    /\ calls = <<Call(2, "statusCallback", MEDIA_STARTING),
                 Call(2, "errorCallback", ErrObj(MEDIA_ERR_ABORTED))>>

\* C12: in the direct-backed adapter, stop() on a session whose element is
\* present pauses the element, sets its currentTime to 0, keeps the element,
\* throws nothing, and dispatches exactly STATE/PAUSED then STATE/STOPPED, so
\* that a session with all three callbacks receives statusCallback(PAUSED),
\* statusCallback(STOPPED), successCallback() and no error callback.
C12_StopSequence ==
    [][(/\ adapter = "direct"
        /\ last'.op = "stop"
        /\ heap[last'.obj].node # NoNode) =>
          LET this == last'.obj
              node == heap[this].node
              id == heap[this].id
          IN  /\ heap'[this].node = node
              /\ nodes'[node].paused
              /\ nodes'[node].currentTime = Num(0)
              /\ fault' = Nothing
              /\ statuses' = <<Status(id, MEDIA_STATE, MEDIA_PAUSED),
                               Status(id, MEDIA_STATE, MEDIA_STOPPED)>>
              /\ \A i \in 1..Len(calls') : calls'[i].cb # "errorCallback"
              /\ (heap[this].statusCallback /\ heap[this].successCallback) =>
                    calls' = <<Call(this, "statusCallback", MEDIA_PAUSED),
                               Call(this, "statusCallback", MEDIA_STOPPED),
                               Call(this, "successCallback", NoArgs)>>]_vars

\* stop() of a session with all three callbacks whose element is present
C12_Witness ==
    /\ adapter = "direct"
    /\ last.op = "stop"
    /\ heap[last.obj].node # NoNode
    /\ Len(calls) = 3
    /\ nodes[heap[last.obj].node].paused
    /\ nodes[heap[last.obj].node].currentTime = Num(0)

\* C13: in the direct-backed adapter an error event of an element whose
\* native code is MEDIA_ERR_SRC_NOT_SUPPORTED is dispatched as one MEDIA_ERROR
\* status carrying { code: MEDIA_ERR_ABORTED }, and the error callback never
\* receives the unsupported-format code; an error event with any other code is
\* dispatched with the event's own error object.
C13_UnsupportedFormatBecomesAborted ==
    last.op = "onerror" =>
        LET e == last.value
            this == last.obj
            delivered == IF CodeOf(e) = MEDIA_ERR_SRC_NOT_SUPPORTED
                         THEN ErrObj(MEDIA_ERR_ABORTED)
                         ELSE e
        IN  /\ statuses = <<Status(heap[this].id, MEDIA_ERROR, delivered)>>
            /\ calls = IF heap[this].errorCallback
                       THEN <<Call(this, "errorCallback", delivered)>>
                       ELSE <<>>
            /\ \A i \in 1..Len(calls) : CodeOf(calls[i].arg) # MEDIA_ERR_SRC_NOT_SUPPORTED

C13_Witness ==
    /\ last.op = "onerror"
    /\ CodeOf(last.value) = MEDIA_ERR_SRC_NOT_SUPPORTED
    /\ calls = <<Call(last.obj, "errorCallback", ErrObj(MEDIA_ERR_ABORTED))>>

\* what a dispatch leaves behind: the callbacks called, the sessions, the
\* diagnostics and the fault
Outcome(m) == <<m.calls, m.heap, m.logs, m.thrown>>

\* C14: from every reachable registry and for every id, message type and
\* value (numbers and strings), NSmedia.onStatus of the direct-backed module
\* and NSmedia.onStatus of the bridge-backed module call the same callbacks
\* with the same arguments in the same order and leave the same cached
\* duration and position.
C14_DispatchersEquivalent ==
    \A id \in Ids, msg \in Messages :
        Outcome(onStatusDirect(Ctx, id, msg[1], msg[2])) =
            Outcome(onStatusBridge(Ctx, id, msg[1], msg[2]))

\* C16: in the bridge-backed adapter the failure handler of every command in
\* flight is the error callback of the session that issued it, and a failure
\* response to a command of a session that has an error callback calls it
\* with the error.
C16_FailureHandlerIsErrorCallback ==
    /\ \A i \in 1..Len(pending) : pending[i].fail = errorCallbackOf(Ctx, pending[i].obj)
    /\ (last.op = "execError" /\ heap[last.obj].errorCallback) =>
           calls = <<Call(last.obj, "errorCallback", last.value)>>

\* C18: in the direct-backed adapter getCurrentPosition(success, fail) throws
\* nothing and calls exactly one of success and fail and no callback of the
\* session.  With the element present it dispatches MEDIA_POSITION with the
\* element's currentTime, the cached position becomes that value, and success
\* is called with it.  With the element absent it calls fail with the fault,
\* dispatches no status and leaves every session unchanged.
C18_ExactlyOnePositionCallback ==
    [][(adapter = "direct" /\ last'.op = "getCurrentPosition") =>
          LET this == last'.obj
              node == heap[this].node
          IN  /\ fault' = Nothing
              /\ node # NoNode =>
                    LET p == nodes[node].currentTime
                    IN  /\ statuses' = <<Status(heap[this].id, MEDIA_POSITION, p)>>
                        /\ heap'[this]._position = p
                        /\ calls' = <<Call(this, "success", p)>>
              /\ node = NoNode =>
                    /\ calls' = <<Call(this, "fail", TypeError)>>
                    /\ statuses' = <<>>
                    /\ heap' = heap]_vars

\* the element is absent and fail is called; the cached position is the one
\* an earlier call read from the element
C18_Witness ==
    /\ adapter = "direct"
    /\ last.op = "getCurrentPosition"
    /\ heap[last.obj].node = NoNode
    /\ calls = <<Call(last.obj, "fail", TypeError)>>
    /\ heap[last.obj]._position = Frac(12, 5)

\* the number of elements of a sequence that satisfy Test
Count(seq, Test(_)) == Len(SelectSeq(seq, Test))

\* C19: in the direct-backed adapter stop() with the element absent throws
\* nothing: pause and seekTo each report their fault as a MEDIA_ERROR status,
\* then STATE/STOPPED is dispatched, so a session with all three callbacks
\* receives errorCallback, errorCallback, statusCallback(STOPPED),
\* successCallback().  Every stop(), element present or absent, dispatches
\* exactly one STATE/STOPPED and calls successCallback exactly once when the
\* session has one.
C19_StopWithoutElement ==
    [][(adapter = "direct" /\ last'.op = "stop") =>
          LET this == last'.obj
              id == heap[this].id
          IN  /\ fault' = Nothing
              /\ Count(statuses', LAMBDA st : st = Status(id, MEDIA_STATE, MEDIA_STOPPED)) = 1
              /\ heap[this].successCallback =>
                    Count(calls', LAMBDA c : c = Call(this, "successCallback", NoArgs)) = 1
              /\ heap[this].node = NoNode =>
                    /\ statuses' = <<Status(id, MEDIA_ERROR, TypeError),
                                     Status(id, MEDIA_ERROR, TypeError),
                                     Status(id, MEDIA_STATE, MEDIA_STOPPED)>>
                    /\ (/\ heap[this].statusCallback
                        /\ heap[this].successCallback
                        /\ heap[this].errorCallback) =>
                          calls' = <<Call(this, "errorCallback", TypeError),
                                     Call(this, "errorCallback", TypeError),
                                     Call(this, "statusCallback", MEDIA_STOPPED),
                                     Call(this, "successCallback", NoArgs)>>]_vars

C19_Witness ==
    /\ adapter = "direct"
    /\ last.op = "stop"
    /\ heap[last.obj].node = NoNode
    /\ \E n \in 1..Len(nodes) : nodes[n].owner = last.obj
    /\ Len(calls) = 4

\* C20: in the direct-backed adapter an event of an element that is not the
\* element its session currently holds (the session released it, and may have
\* created another) calls no callback and changes no session.
C20_ReleasedElementIsSilent ==
    [][(/\ adapter = "direct"
        /\ last'.node # NoNode
        /\ heap[nodes[last'.node].owner].node # last'.node) =>
          /\ calls' = <<>>
          /\ heap' = heap]_vars

\* C15: in the bridge-backed adapter a message on the status channel whose
\* action is not 'status' throws nothing to the caller that delivered it,
\* calls no callback and only logs a diagnostic.
C15_UnknownActionOnlyLogged ==
    (last.op = "onMessageFromNative" /\ last.action # "status") =>
        /\ fault = Nothing
        /\ calls = <<>>
        /\ logs # <<>>

ChannelPlatforms == {"android", "amazon-fireos", "windowsphone"}

\* the number of times the messageChannel command was issued
Issued == Count(channel.trace, LAMBDA ev : ev = "messageChannel")

\* C17: on android, amazon-fireos and windowsphone the messageChannel command
\* is not issued before the platform-ready signal and has been issued exactly
\* once from the signal on; initialization waits for onNSmediaPluginReady until
\* it is completed, and it is completed only after the command was issued.  On
\* any other platform the command is never issued and initialization does not
\* wait for the plugin.
C17_ChannelIssuedOnceAfterReady ==
    /\ channel.platformId \in ChannelPlatforms =>
          /\ Issued = IF channel.cordovaReady THEN 1 ELSE 0
          /\ ~channel.cordovaReady => channel.waitingFor = {"onNSmediaPluginReady"}
          /\ channel.waitingFor = {} =>
                channel.trace = <<"messageChannel", "onNSmediaPluginReady">>
    /\ channel.platformId \notin ChannelPlatforms =>
          /\ Issued = 0
          /\ channel.waitingFor = {}
          /\ channel.trace = <<>>

\* the channel is up on windowsphone and has delivered a status to a session
C17_Witness ==
    /\ channel.platformId = "windowsphone"
    /\ channel.cordovaReady
    /\ Issued = 1
    /\ channel.waitingFor = {}
    /\ last.op = "onMessageFromNative"
    /\ last.action = "status"
    /\ calls # <<>>
====
